---- MODULE Spec2Model ----
(***************************************************************************)
(* CareerBridge chat core: the conversation resolver                       *)
(* (ChatController.getOrCreateConversation) over a non-transactional       *)
(* document store, and the realtime message channel (SocketService).       *)
(*                                                                         *)
(* Every await of a handler is an interleaving point: one action is the    *)
(* store operation an await waits for, followed by the synchronous code    *)
(* up to the next await.                                                   *)
(***************************************************************************)
EXTENDS Integers, Sequences, FiniteSets, TLC

VARIABLES
  uniqueIndex,       \* the legacy unique index users_1_job_1 is still in the database
  posts,             \* the job posts the posts collection holds
  userSockets,       \* SocketService.userSockets: userId -> the ids of its connections
  conversations,     \* the conversations collection, in insertion order (_id = position)
  calls,             \* the getOrCreateConversation requests, by request slot
  events,            \* what was emitted through socket.io, in emission order
  sockets,           \* the connections: their state and the rooms they are in
  messages,          \* the messages collection, in insertion order (_id = position)
  messageRateLimit,  \* SocketService.messageRateLimit: userId -> { count, resetTime }
  now,               \* Date.now(), in milliseconds
  tasks              \* the handler invocations of the channel, in arrival order

chatVars == <<sockets, messages, messageRateLimit, now, tasks>>
vars == <<uniqueIndex, posts, userSockets, conversations, calls, events, sockets,
          messages, messageRateLimit, now, tasks>>

---------------------------------------------------------------------------
(* Bounds and universes *)

MaxCalls == 2

MaxTasks == 3

\* Date.now() when the run starts
StartTime == 1000

\* the users stored in the database, and the job posts stored when a run
\* starts; any other id names nothing
Users == {1, 2, 3}
Jobs == {1, 2}
NoJob == 0

\* An id as a client writes it: 24 hex digits, in lower or in upper case.
IdStrings(ids) == ids \X {"lower", "upper"}

---------------------------------------------------------------------------
(* Ids *)

\* String(objectId): the canonical, lower-case rendering
Str(id) == <<id, "lower">>

\* new mongoose.Types.ObjectId(string): hex digits are read in either case
ObjectId(s) == s[1]

Range(f) == {f[i] : i \in DOMAIN f}

Min(S) == CHOOSE x \in S : \A y \in S : x <= y
Max(S) == CHOOSE x \in S : \A y \in S : x >= y

\* [a, b].sort()
SortPair(p) == IF p[1] <= p[2] THEN p ELSE <<p[2], p[1]>>

---------------------------------------------------------------------------
(* Connections and rooms *)

Sockets == {1, 2, 3, 4}

\* socket.userId, from the token the connection was authenticated with
SocketUser(s) == IF s = 4 THEN 1 ELSE s

UserRoom(userIdString) == <<"user", userIdString>>
ConversationRoom(conversationId) == <<"conversation", conversationId>>

\* the connections an emit to a room reaches
InRoom(room) == {s \in Sockets : sockets[s].state = "open" /\ room \in sockets[s].rooms}

\* io.to(room).emit(type, ...) and, with a sender to skip, socket.to(room).emit
Emit(type, room, ref, src, except) ==
  [type |-> type, room |-> room, ref |-> ref, src |-> src, to |-> InRoom(room) \ except]

\* the connection handler: the connection is tracked and joins its user room;
\* cut is no state of the program, it records the handler invocations that
\* were suspended when the connection closed
Connected(s) == [state |-> "open", rooms |-> {UserRoom(Str(SocketUser(s)))}, cut |-> {}]

---------------------------------------------------------------------------
(* The conversations collection *)

NoConv == 0

ConvIds == 1..Len(conversations)

\* users: { $all: userIds }
UsersAll(conv, userIds) == \A i \in DOMAIN userIds : userIds[i] \in Range(conv.users)

\* job: ObjectId(jobId), or job: null
JobMatchesAny(conv, jobId) == TRUE
JobMatchesSet(conv, jobId) == jobId # NoJob /\ conv.job = jobId
JobMatches(conv, jobId) == conv.job = jobId

\* the in-memory filter: exactly two users, equal to the sorted target pair
ExactPair(conv, userIds) ==
  /\ Len(conv.users) = 2
  /\ SortPair(conv.users) = SortPair(userIds)

\* The schema's compound index is not unique. A database that still has the old
\* unique index users_1_job_1 refuses (E11000) a document one of whose
\* (user, job) keys another document already has: the index is multikey.
DuplicateKey(userIds, jobId) ==
  /\ uniqueIndex
  /\ \E c \in ConvIds : /\ conversations[c].job = jobId
                         /\ Range(conversations[c].users) \cap Range(userIds) # {}

\* the document Conversation.create inserts; createdBy is no field of the
\* schema, it records the request that inserted the document
NewConversation(userIds, jobId, p) ==
  [users |-> userIds, job |-> jobId, lastMessage |-> 0, lastMessageAt |-> 0,
   createdBy |-> p]

---------------------------------------------------------------------------
(* ChatController.getOrCreateConversation *)

Missing == <<0, "missing">>

\* let retries = 3; let delay = 500; and delay += 500 after a round
MaxRetries == 3
RetryDelay == 500

\* a request: dupKey tells that Conversation.create threw E11000, retries and
\* delay are the variables of the retry loop, slept the time the request has
\* waited in it, notify what became of its new_conversation notification
IdleCall ==
  [pc |-> "idle", caller |-> 0, userId |-> Missing, jobId |-> NoJob,
   conv |-> NoConv, isNew |-> FALSE, dupKey |-> FALSE, retries |-> 0, delay |-> 0,
   slept |-> 0, notify |-> "none", status |-> 0]

\* currentUserId === userId: the caller's id comes from the token, in lower case
IsSelf(caller, userId) == Str(caller) = userId

\* const userIds = [ObjectId(currentUserId), ObjectId(userId)].sort()
TargetUserIds(c) == SortPair(<<c.caller, ObjectId(c.userId)>>)

\* Conversation.find(query) and then .find(exact two users): the first hit
\* in the order the store returns them
FindExactOrdered(c) ==
  LET hits == {k \in ConvIds : /\ JobMatches(conversations[k], c.jobId)
                               /\ conversations[k].users = <<c.caller, ObjectId(c.userId)>>}
  IN IF hits = {} THEN NoConv ELSE Min(hits)
FindExact(c) ==
  LET hits == {k \in ConvIds : /\ UsersAll(conversations[k], TargetUserIds(c))
                               /\ JobMatches(conversations[k], c.jobId)
                               /\ ExactPair(conversations[k], TargetUserIds(c))}
  IN IF hits = {} THEN NoConv ELSE Min(hits)

\* Conversation.findOne({ users: { $all: userIds }, job }): no filter on the
\* number of users
FindOneAll(c) ==
  LET hits == {k \in ConvIds : /\ UsersAll(conversations[k], TargetUserIds(c))
                               /\ JobMatches(conversations[k], c.jobId)}
  IN IF hits = {} THEN NoConv ELSE Min(hits)

\* Conversation.find({ users: { $all: userIds } }).sort({ createdAt: -1 }) and
\* then the filter on the exact pair and on the job: the most recent hit
FindAllFiltered(c) ==
  LET hits == {k \in ConvIds : /\ UsersAll(conversations[k], TargetUserIds(c))
                               /\ ExactPair(conversations[k], TargetUserIds(c))
                               /\ JobMatches(conversations[k], c.jobId)}
  IN IF hits = {} THEN NoConv ELSE Max(hits)

Respond(p, c, code) == calls' = [calls EXCEPT ![p] = [c EXCEPT !.pc = "done", !.status = code]]

\* What becomes of the notification of a new conversation: the event is
\* emitted, or global.socketService is not set, or the try block throws before
\* the emit.
NotifyOutcomes == {"emitted", "absent", "throws"}

\* successResponse(res, conversation, 200) follows the try/catch around the
\* notification, whatever became of it
NotifyStatusStrict(outcome) == IF outcome = "emitted" THEN 200 ELSE 500
NotifyStatus(outcome) == 200

\* if (isNewConversation) io.to(`user:${String(userId)}`).emit('new_conversation')
\* and successResponse(res, conversation, 200)
SucceedWith(p, c, outcome) ==
  /\ Respond(p, [c EXCEPT !.notify = IF c.isNew THEN outcome ELSE "none"],
             IF c.isNew THEN NotifyStatus(outcome) ELSE 200)
  /\ events' = IF c.isNew /\ outcome = "emitted"
                THEN Append(events, Emit("new_conversation", <<"user", c.userId>>,
                                          c.conv, p, {}))
                ELSE events

\* the server sets global.socketService before it listens
Succeed(p, c) == SucceedWith(p, c, "emitted")

\* the request arrives: the checks before the first await
ResolveStart(p, caller, userId, jobId) ==
  /\ calls[p].pc = "idle"
  /\ \A q \in 1..(p - 1) : calls[q].pc # "idle"
  /\ LET c == [IdleCall EXCEPT !.caller = caller, !.userId = userId, !.jobId = jobId]
     IN IF userId = Missing \/ IsSelf(caller, userId)
        THEN Respond(p, c, 400)
        ELSE calls' = [calls EXCEPT ![p] = [c EXCEPT !.pc = "findUser"]]
  /\ UNCHANGED <<uniqueIndex, posts, userSockets, conversations, events, chatVars>>

\* await User.findById(userId), and the job test that follows it
ResolveFindUser(p) ==
  LET c == calls[p] IN
  /\ c.pc = "findUser"
  /\ IF ObjectId(c.userId) \notin Users
     THEN Respond(p, c, 404)
     ELSE calls' = [calls EXCEPT ![p].pc = IF c.jobId # NoJob THEN "findJob" ELSE "find"]
  /\ UNCHANGED <<uniqueIndex, posts, userSockets, conversations, events, chatVars>>

\* await Post.findById(jobId)
ResolveFindJob(p) ==
  LET c == calls[p] IN
  /\ c.pc = "findJob"
  /\ IF c.jobId \notin posts
     THEN Respond(p, c, 404)
     ELSE calls' = [calls EXCEPT ![p].pc = "find"]
  /\ UNCHANGED <<uniqueIndex, posts, userSockets, conversations, events, chatVars>>

\* await Conversation.find(query): the first lookup
ResolveFind(p) ==
  LET c == calls[p]
      found == FindExact(c) IN
  /\ c.pc = "find"
  /\ IF found # NoConv
     THEN Succeed(p, [c EXCEPT !.conv = found])
     ELSE /\ calls' = [calls EXCEPT ![p].pc = "doubleCheck"]
          /\ events' = events
  /\ UNCHANGED <<uniqueIndex, posts, userSockets, conversations, chatVars>>

\* await Conversation.find(query): the double check before creating
ResolveDoubleCheck(p) ==
  LET c == calls[p]
      found == FindExact(c) IN
  /\ c.pc = "doubleCheck"
  /\ IF found # NoConv
     THEN Succeed(p, [c EXCEPT !.conv = found])
     ELSE /\ calls' = [calls EXCEPT ![p].pc = "create"]
          /\ events' = events
  /\ UNCHANGED <<uniqueIndex, posts, userSockets, conversations, chatVars>>

\* await Conversation.create({ users: userIds, job })
ResolveCreate(p) ==
  LET c == calls[p] IN
  /\ c.pc = "create"
  /\ IF DuplicateKey(TargetUserIds(c), c.jobId)
     THEN /\ calls' = [calls EXCEPT ![p] = [c EXCEPT !.pc = "retrySleep", !.dupKey = TRUE,
                                                     !.retries = MaxRetries,
                                                     !.delay = RetryDelay]]
          /\ UNCHANGED conversations
     ELSE /\ conversations' = Append(conversations,
                                      NewConversation(TargetUserIds(c), c.jobId, p))
          /\ calls' = [calls EXCEPT ![p] = [c EXCEPT !.pc = "populate", !.isNew = TRUE,
                                                     !.conv = Len(conversations) + 1]]
  /\ UNCHANGED <<uniqueIndex, posts, userSockets, events, chatVars>>

\* await Conversation.findById(conversation._id) with its populates
ResolvePopulate(p) ==
  LET c == calls[p] IN
  /\ c.pc = "populate"
  /\ Succeed(p, c)
  /\ UNCHANGED <<uniqueIndex, posts, userSockets, conversations, chatVars>>

\* while (retries > 0 && !conversation), tested after retries--: the round that
\* just failed was the last one
RetriesExhaustedEarly(c) == c.retries <= 2
RetriesExhausted(c) == c.retries <= 1

\* the same step in a process whose socket service may be absent or may throw
ResolvePopulateNotify(p) ==
  LET c == calls[p] IN
  /\ c.pc = "populate"
  /\ \E outcome \in NotifyOutcomes : SucceedWith(p, c, outcome)
  /\ UNCHANGED <<uniqueIndex, posts, userSockets, conversations, chatVars>>

\* await new Promise(resolve => setTimeout(resolve, delay))
ResolveRetrySleep(p) ==
  /\ calls[p].pc = "retrySleep"
  /\ calls' = [calls EXCEPT ![p].pc = "retryFindOne", ![p].slept = @ + calls[p].delay]
  /\ UNCHANGED <<uniqueIndex, posts, userSockets, conversations, events, chatVars>>

\* await Conversation.findOne({ users: { $all: userIds }, job })
ResolveRetryFindOne(p) ==
  LET c == calls[p]
      found == FindOneAll(c) IN
  /\ c.pc = "retryFindOne"
  /\ IF found # NoConv
     THEN Succeed(p, [c EXCEPT !.conv = found])
     ELSE /\ calls' = [calls EXCEPT ![p].pc = "retryFindAll"]
          /\ events' = events
  /\ UNCHANGED <<uniqueIndex, posts, userSockets, conversations, chatVars>>

\* await Conversation.find({ users: { $all: userIds } }), filtered in memory
ResolveRetryFindAll(p) ==
  LET c == calls[p]
      found == FindAllFiltered(c) IN
  /\ c.pc = "retryFindAll"
  /\ IF found # NoConv
     THEN Succeed(p, [c EXCEPT !.conv = found])
     ELSE /\ IF ~RetriesExhausted(c)
             THEN calls' = [calls EXCEPT ![p] = [c EXCEPT !.pc = "retrySleep",
                                                        !.retries = c.retries - 1,
                                                        !.delay = c.delay + RetryDelay]]
             ELSE Respond(p, [c EXCEPT !.retries = 0, !.delay = c.delay + RetryDelay], 500)
          /\ events' = events
  /\ UNCHANGED <<uniqueIndex, posts, userSockets, conversations, chatVars>>

ResolveStep(p) ==
  \/ ResolveFindUser(p)
  \/ ResolveFindJob(p)
  \/ ResolveFind(p)
  \/ ResolveDoubleCheck(p)
  \/ ResolveCreate(p)
  \/ ResolvePopulate(p)
  \/ ResolveRetrySleep(p)
  \/ ResolveRetryFindOne(p)
  \/ ResolveRetryFindAll(p)

ResolveStepNotify(p) ==
  \/ ResolveFindUser(p)
  \/ ResolveFindJob(p)
  \/ ResolveFind(p)
  \/ ResolveDoubleCheck(p)
  \/ ResolveCreate(p)
  \/ ResolvePopulateNotify(p)
  \/ ResolveRetrySleep(p)
  \/ ResolveRetryFindOne(p)
  \/ ResolveRetryFindAll(p)

InFlight(p) == calls[p].pc \notin {"idle", "done"}

---------------------------------------------------------------------------
(* Message content: the text as typed, followed by `pad` spaces *)

MaxContentLength == 5000

Content(text, pad) == [text |-> text, pad |-> pad]

\* what the patterns are tested on: no pattern matches inside a run of spaces,
\* so one space stands for the padding
Chars(content) == content.text \o (IF content.pad > 0 THEN <<" ">> ELSE <<>>)
Length(content) == Len(content.text) + content.pad

IsSpace(ch) == ch \in {" ", "\t", "\n"}
IsDigit(ch) == ch \in {"0", "1", "2", "3", "4", "5", "6", "7", "8", "9"}
Lower(ch) == CASE ch = "H" -> "h" [] ch = "T" -> "t" [] ch = "P" -> "p"
               [] ch = "S" -> "s" [] ch = "W" -> "w" [] ch = "A" -> "a"
               [] ch = "I" -> "i" [] ch = "O" -> "o" [] OTHER -> ch
IsLetter(ch) == Lower(ch) \in {"a", "b", "c", "e", "g", "h", "i", "l", "m", "o",
                               "p", "s", "t", "w", "x"}

\* content.trim()
RECURSIVE TrimLeft(_)
TrimLeft(str) == IF str # <<>> /\ IsSpace(Head(str)) THEN TrimLeft(Tail(str)) ELSE str
RECURSIVE TrimRight(_)
TrimRight(str) ==
  IF str # <<>> /\ IsSpace(str[Len(str)])
  THEN TrimRight(SubSeq(str, 1, Len(str) - 1))
  ELSE str
Trim(content) == TrimRight(TrimLeft(content.text))

\* !content || content.trim().length === 0
IsEmpty(content) == Length(content) = 0 \/ Len(Trim(content)) = 0

TooLong(content) == Length(content) > MaxContentLength

\* str has the literal lit at position i, letters compared without case
HasAt(str, i, lit) ==
  /\ i >= 1
  /\ i + Len(lit) - 1 <= Len(str)
  /\ \A k \in 1..Len(lit) : Lower(str[i + k - 1]) = lit[k]

NonSpaceAt(str, i) == i >= 1 /\ i <= Len(str) /\ ~IsSpace(str[i])
LetterAt(str, i) == i >= 1 /\ i <= Len(str) /\ IsLetter(str[i])

\* exactly n digits from position i on
DigitsAt(str, i, n) ==
  /\ i >= 1
  /\ i + n - 1 <= Len(str)
  /\ \A k \in 0..(n - 1) : IsDigit(str[i + k])

\* /(https?:\/\/[^\s]+|www\.[^\s]+|[^\s]+\.[a-z]{2,})/gi
UrlLike(str) ==
  \E i \in 1..Len(str) :
    \/ HasAt(str, i, <<"h", "t", "t", "p", ":", "/", "/">>) /\ NonSpaceAt(str, i + 7)
    \/ HasAt(str, i, <<"h", "t", "t", "p", "s", ":", "/", "/">>) /\ NonSpaceAt(str, i + 8)
    \/ HasAt(str, i, <<"w", "w", "w", ".">>) /\ NonSpaceAt(str, i + 4)
    \/ NonSpaceAt(str, i) /\ HasAt(str, i + 1, <<".">>)
         /\ LetterAt(str, i + 2) /\ LetterAt(str, i + 3)

\* an optional separator [-\s]? at position i: the number of characters it takes
SeparatorAt(str, i) ==
  {0} \cup (IF i >= 1 /\ i <= Len(str) /\ (str[i] = "-" \/ IsSpace(str[i])) THEN {1} ELSE {})

\* /(\+84|0)[0-9]{9,10}|[0-9]{3,4}[-\s]?[0-9]{3,4}[-\s]?[0-9]{3,4}/g
PhoneLikePrefixed(str) ==
  \E i \in 1..Len(str) :
    \/ HasAt(str, i, <<"+", "8", "4">>) /\ DigitsAt(str, i + 3, 9)
    \/ HasAt(str, i, <<"0">>) /\ DigitsAt(str, i + 1, 9)
PhoneLike(str) ==
  \E i \in 1..Len(str) :
    \/ HasAt(str, i, <<"+", "8", "4">>) /\ DigitsAt(str, i + 3, 9)
    \/ HasAt(str, i, <<"0">>) /\ DigitsAt(str, i + 1, 9)
    \/ \E a, b, c \in {3, 4} :
         /\ DigitsAt(str, i, a)
         /\ \E s1 \in SeparatorAt(str, i + a) :
              /\ DigitsAt(str, i + a + s1, b)
              /\ \E s2 \in SeparatorAt(str, i + a + s1 + b) :
                   DigitsAt(str, i + a + s1 + b + s2, c)

---------------------------------------------------------------------------
(* The rate limiter of send_message *)

RateLimitMax == 10
RateWindow == 60000

HasLimit(user) == user \in DOMAIN messageRateLimit

\* the map after map.set(user, data)
SetLimit(user, data) ==
  [u \in DOMAIN messageRateLimit \cup {user} |->
     IF u = user THEN data ELSE messageRateLimit[u]]

\* now < resetTime && count >= 10
RateLimitedOffByOne(user) ==
  /\ HasLimit(user)
  /\ now < messageRateLimit[user].resetTime
  /\ messageRateLimit[user].count > RateLimitMax
RateLimited(user) ==
  /\ HasLimit(user)
  /\ now < messageRateLimit[user].resetTime
  /\ messageRateLimit[user].count >= RateLimitMax

\* count++ inside the window; { count: 1, resetTime: now + 60000 } otherwise
RateLimitCountedOn(user) ==
  IF HasLimit(user)
  THEN SetLimit(user, [messageRateLimit[user] EXCEPT !.count = @ + 1])
  ELSE SetLimit(user, [count |-> 1, resetTime |-> now + RateWindow])
RateLimitCounted(user) ==
  IF HasLimit(user) /\ now < messageRateLimit[user].resetTime
  THEN SetLimit(user, [messageRateLimit[user] EXCEPT !.count = @ + 1])
  ELSE SetLimit(user, [count |-> 1, resetTime |-> now + RateWindow])

---------------------------------------------------------------------------
(* SocketService: the handlers of one connection *)

NoContent == Content(<<>>, 0)
TaskIds == 1..Len(tasks)
MsgIds == 1..Len(messages)

\* a handler invocation: pc is the await it is suspended at, result what it
\* answered its own connection with (an error event or an acknowledgement),
\* at the time it arrived, msg the message it stored and seen the number of
\* messages the store held when its updateMany ran
NewTask(kind, s, user, conversationId, content, pc, result) ==
  [kind |-> kind, sock |-> s, user |-> user, convId |-> conversationId,
   content |-> content, at |-> now, pc |-> pc, result |-> result, msg |-> 0,
   seen |-> 0]

Finish(t, result) == tasks' = [tasks EXCEPT ![t].pc = "done", ![t].result = result]

\* Conversation.findById(conversationId)
ConversationExists(conversationId) == ObjectId(conversationId) \in ConvIds

\* conversation.users.map(id => String(id)).includes(userId)
IsParticipantAlways(conversationId, user) == TRUE
IsParticipant(conversationId, user) ==
  Str(user) \in {Str(conversations[ObjectId(conversationId)].users[i]) : i \in 1..2}

\* a string that Conversation.findById can cast to an ObjectId; on any other
\* string the query rejects with a CastError, which the handler's catch answers
WellFormed(idString) == idString[2] \in {"lower", "upper"}

\* the error event of the catch block of each handler
CaughtResult(kind) ==
  IF kind = "join" THEN "failed_join"
  ELSE IF kind = "mark_read" THEN "failed_mark"
  ELSE "failed"

Answer(kind, verdict) == IF verdict = "cast_error" THEN CaughtResult(kind) ELSE verdict

\* what the handler answers after await Conversation.findById: "" lets it go on
AccessToExisting(conversationId, user) ==
  IF ~WellFormed(conversationId) THEN "cast_error"
  ELSE IF ~ConversationExists(conversationId) THEN "not_found"
  ELSE ""
Access(conversationId, user) ==
  IF ~WellFormed(conversationId) THEN "cast_error"
  ELSE IF ~ConversationExists(conversationId) THEN "not_found"
  ELSE IF ~IsParticipant(conversationId, user) THEN "denied"
  ELSE ""

\* socket.join(room) of a connection that is open adds it to the room. On a
\* connection that has disconnected in the meantime the outcome is the
\* library's (socket.io is no part of the sources): the adapter records the
\* membership again, or the call does nothing.
JoinOutcomes(s) == IF sockets[s].state = "open" THEN {TRUE} ELSE BOOLEAN

\* socket.on('join_conversation'): up to await Conversation.findById
JoinStart(s, conversationId) ==
  /\ sockets[s].state = "open"
  /\ tasks' = Append(tasks, NewTask("join", s, SocketUser(s), conversationId,
                                    NoContent, "findConv", ""))
  /\ UNCHANGED <<uniqueIndex, posts, userSockets, conversations, calls, events, sockets, messages,
                 messageRateLimit, now>>

\* the membership test, socket.join and the joined_conversation acknowledgement
JoinFindConv(t) ==
  LET k == tasks[t]
      verdict == Access(k.convId, k.user) IN
  /\ k.kind = "join" /\ k.pc = "findConv"
  /\ IF verdict # ""
     THEN Finish(t, Answer(k.kind, verdict)) /\ UNCHANGED sockets
     ELSE /\ \E joined \in JoinOutcomes(k.sock) :
               sockets' = IF joined
                          THEN [sockets EXCEPT
                                  ![k.sock].rooms = @ \cup {ConversationRoom(k.convId)}]
                          ELSE sockets
          /\ Finish(t, "joined")
  /\ UNCHANGED <<uniqueIndex, posts, userSockets, conversations, calls, events, messages, messageRateLimit, now>>

\* socket.on('leave_conversation')
LeaveConversation(s, conversationId) ==
  /\ sockets[s].state = "open"
  /\ ConversationRoom(conversationId) \in sockets[s].rooms
  /\ sockets' = [sockets EXCEPT ![s].rooms = @ \ {ConversationRoom(conversationId)}]
  /\ UNCHANGED <<uniqueIndex, posts, userSockets, conversations, calls, events, messages, messageRateLimit,
                 now, tasks>>

\* the checks of send_message before its first await, in the order of the code
SendVerdict(user, content) ==
  IF IsEmpty(content) THEN "empty"
  ELSE IF TooLong(content) THEN "too_long"
  ELSE IF RateLimited(user) THEN "rate_limited"
  ELSE IF UrlLike(Chars(content)) THEN "link"
  ELSE IF PhoneLike(Chars(content)) THEN "phone"
  ELSE ""

\* socket.on('send_message'): up to await Conversation.findById
SendStart(s, conversationId, content) ==
  LET user == SocketUser(s)
      verdict == SendVerdict(user, content) IN
  /\ sockets[s].state = "open"
  /\ messageRateLimit' = IF verdict \in {"empty", "too_long", "rate_limited"}
                         THEN messageRateLimit
                         ELSE RateLimitCounted(user)
  /\ tasks' = Append(tasks, NewTask("send", s, user, conversationId, content,
                                    IF verdict = "" THEN "findConv" ELSE "done", verdict))
  /\ UNCHANGED <<uniqueIndex, posts, userSockets, conversations, calls, events, sockets, messages, now>>

\* the membership test of send_message after await Conversation.findById
SendFindConv(t) ==
  LET k == tasks[t]
      verdict == Access(k.convId, k.user) IN
  /\ k.kind = "send" /\ k.pc = "findConv"
  /\ IF verdict # ""
     THEN Finish(t, Answer(k.kind, verdict))
     ELSE tasks' = [tasks EXCEPT ![t].pc = "create"]
  /\ UNCHANGED <<uniqueIndex, posts, userSockets, conversations, calls, events, sockets, messages,
                 messageRateLimit, now>>

\* the document Message.create inserts; task is no field of the schema, it
\* records the handler invocation that inserted the document
NewMessage(k, t) ==
  [conversation |-> ObjectId(k.convId), sender |-> k.user, content |-> Trim(k.content),
   isRead |-> FALSE, readAt |-> 0, task |-> t]

\* await Message.create(...): the store inserts the message, or the call throws
SendCreate(t, stored) ==
  LET k == tasks[t] IN
  /\ k.kind = "send" /\ k.pc = "create"
  /\ IF stored
     THEN /\ messages' = Append(messages, NewMessage(k, t))
          /\ tasks' = [tasks EXCEPT ![t].pc = "save", ![t].msg = Len(messages) + 1]
     ELSE /\ Finish(t, "failed")
          /\ UNCHANGED messages
  /\ UNCHANGED <<uniqueIndex, posts, userSockets, conversations, calls, events, sockets, messageRateLimit, now>>

\* the users new_message and message_notification are emitted to
OtherUserIds(k) ==
  {u \in Range(conversations[ObjectId(k.convId)].users) : Str(u) # Str(k.user)}

RECURSIVE Notifications(_, _, _)
Notifications(others, k, t) ==
  IF others = {} THEN <<>>
  ELSE LET u == Min(others)
       IN <<Emit("message_notification", UserRoom(Str(u)), k.msg, t, {})>>
          \o Notifications(others \ {u}, k, t)

\* await message.populate, conversation.lastMessage = message._id, await
\* conversation.save(), and then the two emits; or the save throws
SendSaveEmitFirst(t, saved) ==
  LET k == tasks[t]
      c == ObjectId(k.convId) IN
  /\ k.kind = "send" /\ k.pc = "save"
  /\ events' = Append(events, Emit("new_message", ConversationRoom(k.convId), k.msg, t, {}))
                \o Notifications(OtherUserIds(k), k, t)
  /\ IF saved
     THEN /\ conversations' = [conversations EXCEPT ![c].lastMessage = k.msg,
                                                    ![c].lastMessageAt = now]
          /\ Finish(t, "sent")
     ELSE /\ Finish(t, "failed")
          /\ UNCHANGED conversations
  /\ UNCHANGED <<uniqueIndex, posts, userSockets, calls, sockets, messages, messageRateLimit, now>>
SendSave(t, saved) ==
  LET k == tasks[t]
      c == ObjectId(k.convId) IN
  /\ k.kind = "send" /\ k.pc = "save"
  /\ IF saved
     THEN /\ conversations' = [conversations EXCEPT ![c].lastMessage = k.msg,
                                                    ![c].lastMessageAt = now]
          /\ events' = Append(events, Emit("new_message", ConversationRoom(k.convId),
                                           k.msg, t, {}))
                       \o Notifications(OtherUserIds(k), k, t)
          /\ Finish(t, "sent")
     ELSE /\ Finish(t, "failed")
          /\ UNCHANGED <<conversations, events>>
  /\ UNCHANGED <<uniqueIndex, posts, userSockets, calls, sockets, messages, messageRateLimit, now>>

\* socket.on('mark_read') and PATCH /conversations/:conversationId/read
\* (ChatController.markMessagesAsRead, s = 0): up to await Conversation.findById
MarkReadStart(s, user, conversationId) ==
  /\ s # 0 => (sockets[s].state = "open" /\ user = SocketUser(s))
  /\ tasks' = Append(tasks, NewTask(IF s = 0 THEN "rest_mark_read" ELSE "mark_read", s,
                                    user, conversationId, NoContent, "findConv", ""))
  /\ UNCHANGED <<uniqueIndex, posts, userSockets, conversations, calls, events, sockets, messages,
                 messageRateLimit, now>>

MarkReadFindConv(t) ==
  LET k == tasks[t]
      verdict == Access(k.convId, k.user) IN
  /\ k.kind \in {"mark_read", "rest_mark_read"} /\ k.pc = "findConv"
  /\ IF verdict # ""
     THEN Finish(t, Answer(k.kind, verdict))
     ELSE tasks' = [tasks EXCEPT ![t].pc = "update"]
  /\ UNCHANGED <<uniqueIndex, posts, userSockets, conversations, calls, events, sockets, messages,
                 messageRateLimit, now>>

\* the filter of Message.updateMany
UnreadOrRead(m, k) ==
  /\ messages[m].conversation = ObjectId(k.convId)
  /\ messages[m].sender # k.user
Unread(m, k) ==
  /\ messages[m].conversation = ObjectId(k.convId)
  /\ messages[m].sender # k.user
  /\ ~messages[m].isRead

\* await Message.updateMany(...); the socket handler then emits messages_read
MarkReadUpdateNoDate(t) ==
  LET k == tasks[t] IN
  /\ k.kind \in {"mark_read", "rest_mark_read"} /\ k.pc = "update"
  /\ messages' = [m \in MsgIds |->
                    IF Unread(m, k)
                    THEN [messages[m] EXCEPT !.isRead = TRUE]
                    ELSE messages[m]]
  /\ events' = IF k.kind = "mark_read"
               THEN Append(events, Emit("messages_read", ConversationRoom(k.convId),
                                        k.user, t, {}))
               ELSE events
  /\ tasks' = [tasks EXCEPT ![t].pc = "done", ![t].result = "read",
                            ![t].seen = Len(messages)]
  /\ UNCHANGED <<uniqueIndex, posts, userSockets, conversations, calls, sockets, messageRateLimit, now>>
MarkReadUpdate(t) ==
  LET k == tasks[t] IN
  /\ k.kind \in {"mark_read", "rest_mark_read"} /\ k.pc = "update"
  /\ messages' = [m \in MsgIds |->
                    IF Unread(m, k)
                    THEN [messages[m] EXCEPT !.isRead = TRUE, !.readAt = now]
                    ELSE messages[m]]
  /\ events' = IF k.kind = "mark_read"
               THEN Append(events, Emit("messages_read", ConversationRoom(k.convId),
                                        k.user, t, {}))
               ELSE events
  /\ tasks' = [tasks EXCEPT ![t].pc = "done", ![t].result = "read",
                            ![t].seen = Len(messages)]
  /\ UNCHANGED <<uniqueIndex, posts, userSockets, conversations, calls, sockets, messageRateLimit, now>>

\* a connection the server has accepted and whose connection handler has
\* not run yet
Accepted == [state |-> "new", rooms |-> {}, cut |-> {}]

\* a connection that was closed, by its handler or by its client
Gone == [state |-> "closed", rooms |-> {}, cut |-> {}]

\* the map after userSockets.get(user).add(s), the user's set created when
\* the map has none
UserSocketsWith(s) ==
  LET user == SocketUser(s)
  IN [u \in DOMAIN userSockets \cup {user} |->
        IF u = user
        THEN (IF user \in DOMAIN userSockets THEN userSockets[user] ELSE {}) \cup {s}
        ELSE userSockets[u]]

\* io.on('connection'): a connection whose token carries no id is closed
\* and nothing is registered for it; any other is tracked under its user and
\* joins the user's room
Connect(s, hasUserId) ==
  /\ sockets[s].state = "new"
  /\ IF hasUserId
     THEN /\ userSockets' = UserSocketsWith(s)
          /\ sockets' = [sockets EXCEPT ![s] = Connected(s)]
     ELSE /\ userSockets' = userSockets
          /\ sockets' = [sockets EXCEPT ![s] = Gone]
  /\ UNCHANGED <<uniqueIndex, posts, conversations, calls, events, messages,
                 messageRateLimit, now, tasks>>

\* SocketService.getUserSockets
GetUserSockets(user) == IF user \in DOMAIN userSockets THEN userSockets[user] ELSE {}

\* SocketService.isUserOnline
IsUserOnline(user) == user \in DOMAIN userSockets /\ Cardinality(userSockets[user]) > 0

\* the same without the test of the size: the user's entry stays
UserSocketsWithoutKept(s) ==
  LET user == SocketUser(s)
  IN [u \in DOMAIN userSockets |->
        IF u = user THEN userSockets[u] \ {s} ELSE userSockets[u]]

\* the map after userSockets.get(user).delete(s), the user's entry deleted
\* when its set is empty
UserSocketsWithout(s) ==
  LET user == SocketUser(s)
      rest == IF user \in DOMAIN userSockets THEN userSockets[user] \ {s} ELSE {}
  IN [u \in (DOMAIN userSockets \ (IF rest = {} THEN {user} ELSE {})) |->
        IF u = user THEN rest ELSE userSockets[u]]

\* socket.on('typing'): socket.to(room).emit('user_typing', ...), which skips
\* the emitting connection; src is that connection and ref the isTyping flag
Typing(s, conversationId, isTyping) ==
  /\ sockets[s].state = "open"
  /\ events' = Append(events, Emit("user_typing", ConversationRoom(conversationId),
                                    isTyping, s, {s}))
  /\ UNCHANGED <<uniqueIndex, posts, userSockets, conversations, calls, sockets,
                 messages, messageRateLimit, now, tasks>>

\* the handler invocations of connection s that are suspended at an await
Suspended(s) == {t \in DOMAIN tasks : tasks[t].sock = s /\ tasks[t].pc # "done"}

\* the connection closes: socket.io takes it out of all its rooms, then the
\* handler of 'disconnect' removes it from userSockets
DisconnectCancelling(s) ==
  /\ sockets[s].state = "open"
  /\ sockets' = [sockets EXCEPT ![s] = [state |-> "closed", rooms |-> {},
                                         cut |-> Suspended(s)]]
  /\ userSockets' = UserSocketsWithout(s)
  /\ tasks' = [t \in DOMAIN tasks |->
                 IF t \in Suspended(s)
                 THEN [tasks[t] EXCEPT !.pc = "done", !.result = "failed"]
                 ELSE tasks[t]]
  /\ UNCHANGED <<uniqueIndex, posts, conversations, calls, events, messages,
                 messageRateLimit, now>>
Disconnect(s) ==
  /\ sockets[s].state = "open"
  /\ sockets' = [sockets EXCEPT ![s] = [state |-> "closed", rooms |-> {},
                                         cut |-> Suspended(s)]]
  /\ userSockets' = UserSocketsWithout(s)
  /\ UNCHANGED <<uniqueIndex, posts, conversations, calls, events, messages,
                 messageRateLimit, now, tasks>>

\* PostController.deleteJob: Post.findOneAndDelete by the company of the post
DeleteJob(j) ==
  /\ j \in posts
  /\ posts' = posts \ {j}
  /\ UNCHANGED <<uniqueIndex, userSockets, conversations, calls, events, sockets,
                 messages, messageRateLimit, now, tasks>>

\* time passes
Tick(d) ==
  /\ now' = now + d
  /\ UNCHANGED <<uniqueIndex, posts, userSockets, conversations, calls, events, sockets, messages,
                 messageRateLimit, tasks>>

Pending == {t \in TaskIds : tasks[t].pc # "done"}

---------------------------------------------------------------------------
(* Specifications *)

InitChannel ==
  /\ sockets = [s \in Sockets |-> Connected(s)]
  /\ userSockets = [u \in {SocketUser(s) : s \in Sockets} |->
                      {s \in Sockets : SocketUser(s) = u}]
  /\ messages = <<>>
  /\ messageRateLimit = <<>>
  /\ now = StartTime
  /\ tasks = <<>>

Init ==
  /\ uniqueIndex \in BOOLEAN
  /\ posts = Jobs
  /\ conversations = <<>>
  /\ calls = [p \in 1..MaxCalls |-> IdleCall]
  /\ events = <<>>
  /\ InitChannel

\* the requests of the concurrent resolver runs
RaceCallers == {1, 2}
RaceUserIds == {<<1, "lower">>, <<2, "lower">>, <<1, "upper">>}
RaceJobs == {NoJob, 1}

ResolveRequest ==
  \E p \in 1..MaxCalls, caller \in RaceCallers, userId \in RaceUserIds, jobId \in RaceJobs :
    ResolveStart(p, caller, userId, jobId)

ResolveProgress == \E p \in 1..MaxCalls : ResolveStep(p)

Next == ResolveRequest \/ ResolveProgress

Spec == Init /\ [][Next]_vars

\* the requests of the sequential runs: a request arrives when none is in flight
\* <<caller, userId, jobId>>: user 4 and job 9 are not in the database
SeqRequests ==
  ({1, 2} \X {<<1, "lower">>, <<2, "lower">>, <<1, "upper">>, <<3, "lower">>}
          \X {NoJob, 1, 2})
  \cup {<<1, <<4, "lower">>, NoJob>>, <<1, Missing, NoJob>>, <<1, <<2, "lower">>, 9>>}

ResolveRequestSeq ==
  \E p \in 1..MaxCalls, r \in SeqRequests :
    /\ \A q \in 1..MaxCalls : ~InFlight(q)
    /\ ResolveStart(p, r[1], r[2], r[3])

NextSeq == ResolveRequestSeq \/ ResolveProgress

SpecSeq == Init /\ [][NextSeq]_vars

\* Racing requests of user 1 in a process whose notification can fail
NotifyUserIds == {<<1, "upper">>, <<2, "lower">>}

ResolveRequestNotify ==
  \E p \in 1..MaxCalls, userId \in NotifyUserIds, jobId \in RaceJobs :
    ResolveStart(p, 1, userId, jobId)

ResolveProgressNotify == \E p \in 1..MaxCalls : ResolveStepNotify(p)

NextNotify == ResolveRequestNotify \/ ResolveProgressNotify

SpecNotify == Init /\ [][NextNotify]_vars

\* Requests of user 1 while employers delete their job posts: user 4 and job 9
\* are not in the database
RefsUserIds == {<<2, "lower">>, <<3, "lower">>, <<4, "lower">>}
RefsJobs == {NoJob, 1, 9}

ResolveRequestRefs ==
  \E p \in 1..MaxCalls, userId \in RefsUserIds, jobId \in RefsJobs :
    ResolveStart(p, 1, userId, jobId)

DeleteAnyJob == \E j \in Jobs : DeleteJob(j)

NextRefs == ResolveRequestRefs \/ ResolveProgress \/ DeleteAnyJob

SpecRefs == Init /\ [][NextRefs]_vars


\* The channel over a store that holds one conversation, of users 1 and 2
\* (user 3 is no participant); every connection is open.
InitChat ==
  /\ uniqueIndex = FALSE
  /\ posts = Jobs
  /\ conversations = <<NewConversation(<<1, 2>>, NoJob, 0)>>
  /\ calls = [p \in 1..MaxCalls |-> IdleCall]
  /\ events = <<>>
  /\ InitChannel

Hello == Content(<<"h", "i">>, 0)

ChatConversationIds == {<<1, "lower">>}
ChatContents == {Hello}

\* a new handler invocation, while the run has room for one
Arrival == Len(tasks) < MaxTasks

\* user 1 writes, user 2 reads, and user 3, no participant, tries everything
Writers == {1, 3}
Readers == {2, 3}

ChatJoin == \E s \in Readers, c \in ChatConversationIds : Arrival /\ JoinStart(s, c)
ChatJoinFindConv == \E t \in TaskIds : JoinFindConv(t)
ChatLeave == \E s \in Readers, c \in ChatConversationIds : LeaveConversation(s, c)
ChatSend ==
  \E s \in Writers, c \in ChatConversationIds, content \in ChatContents :
    Arrival /\ SendStart(s, c, content)
ChatSendFindConv == \E t \in TaskIds : SendFindConv(t)
ChatSendCreate == \E t \in TaskIds, stored \in BOOLEAN : SendCreate(t, stored)
ChatSendSave == \E t \in TaskIds, saved \in BOOLEAN : SendSave(t, saved)
ChatMarkRead ==
  \E s \in Readers, c \in ChatConversationIds : Arrival /\ MarkReadStart(s, SocketUser(s), c)
ChatRestMarkRead ==
  \E u \in Readers, c \in ChatConversationIds : Arrival /\ MarkReadStart(0, u, c)
ChatMarkReadFindConv == \E t \in TaskIds : MarkReadFindConv(t)
ChatMarkReadUpdate == \E t \in TaskIds : MarkReadUpdate(t)

NextChat ==
  \/ ChatJoin
  \/ ChatJoinFindConv
  \/ ChatLeave
  \/ ChatSend
  \/ ChatSendFindConv
  \/ ChatSendCreate
  \/ ChatSendSave
  \/ ChatMarkRead
  \/ ChatRestMarkRead
  \/ ChatMarkReadFindConv
  \/ ChatMarkReadUpdate

SpecChat == InitChat /\ [][NextChat]_vars

\* The rate limiter: one connection of user 1 sends valid messages, one
\* handler at a time, while time passes; the store does not fail.
MaxRateSends == 12

RateInstants == {StartTime + RateWindow - 1, StartTime + RateWindow,
                 StartTime + 2 * RateWindow}

RateSend ==
  /\ Len(tasks) < MaxRateSends
  /\ Pending = {}
  /\ SendStart(1, <<1, "lower">>, Hello)
RateSendFindConv == \E t \in TaskIds : SendFindConv(t)
RateSendCreate == \E t \in TaskIds : SendCreate(t, TRUE)
RateSendSave == \E t \in TaskIds : SendSave(t, TRUE)
RateTick == \E t \in RateInstants : t > now /\ Pending = {} /\ Tick(t - now)

NextRate ==
  \/ RateSend
  \/ RateSendFindConv
  \/ RateSendCreate
  \/ RateSendSave
  \/ RateTick

SpecRate == InitChat /\ [][NextRate]_vars

\* The content checks: user 1 sends each of the sample texts, user 3 (no
\* participant) a valid one, one handler at a time; the store may fail.
MaxContentSends == 2

Text(str) == Content(str, 0)

UrlSamples ==
  {Text(<<"h", "t", "t", "p", ":", "/", "/", "a">>),
   Text(<<"H", "T", "T", "P", "S", ":", "/", "/", "a">>),
   Text(<<"w", "w", "w", ".", "a">>),
   Text(<<"h", "i", " ", "a", ".", "i", "o">>)}

PhoneSamples ==
  {Text(<<"0", "1", "2", "3", "4", "5", "6", "7", "8", "9">>),
   Text(<<"+", "8", "4", "1", "2", "3", "4", "5", "6", "7", "8", "9">>),
   Text(<<"1", "2", "3", "4", "5", "6", "7", "8", "9">>),
   Text(<<"1", "2", "3", "-", "4", "5", "6", " ", "7", "8", "9">>)}

\* neither a link nor a phone number, not blank, at most 5000 characters
CleanSamples ==
  {Hello,
   Text(<<" ", "h", "i", " ">>),
   Text(<<"a", ".", "i">>),
   Text(<<"1", "2", "3", "4", "5", "6", "7", "8">>),
   Content(<<"h", "i">>, MaxContentLength - 2)}

BlankSamples == {Text(<<" ">>), Content(<<>>, 2)}

OtherSamples == {NoContent, Content(<<"h", "i">>, MaxContentLength - 1)}

ContentSamples == UrlSamples \cup PhoneSamples \cup CleanSamples \cup BlankSamples
                  \cup OtherSamples

ContentArrival == Len(tasks) < MaxContentSends /\ Pending = {}

ContentSend ==
  \E content \in ContentSamples : ContentArrival /\ SendStart(1, <<1, "lower">>, content)
ContentSendOutsider == ContentArrival /\ SendStart(3, <<1, "lower">>, Hello)

NextContent ==
  \/ ContentSend
  \/ ContentSendOutsider
  \/ ChatSendFindConv
  \/ ChatSendCreate
  \/ ChatSendSave

SpecContent == InitChat /\ [][NextContent]_vars

\* The read state: the store holds conversation 1 of users 1 and 2 and
\* conversation 2 of users 2 and 3, with unread messages in both; user 2
\* marks as read, by the socket event or by the REST call, writing the
\* conversation id in lower or in upper case, while time passes and user 1
\* sends.
MaxReadTasks == 2

MaxReadTicks == 1

StoredMessage(c, sender) ==
  [conversation |-> c, sender |-> sender, content |-> <<"h", "i">>, isRead |-> FALSE,
   readAt |-> 0, task |-> 0]

InitRead ==
  /\ uniqueIndex = FALSE
  /\ posts = Jobs
  /\ conversations = <<NewConversation(<<1, 2>>, NoJob, 0),
                       NewConversation(<<2, 3>>, NoJob, 0)>>
  /\ calls = [p \in 1..MaxCalls |-> IdleCall]
  /\ events = <<>>
  /\ sockets = [s \in Sockets |-> Connected(s)]
  /\ userSockets = [u \in {SocketUser(s) : s \in Sockets} |->
                      {s \in Sockets : SocketUser(s) = u}]
  /\ messages = <<StoredMessage(1, 1), StoredMessage(1, 2), StoredMessage(2, 3)>>
  /\ messageRateLimit = <<>>
  /\ now = StartTime
  /\ tasks = <<>>

ReadArrival == Len(tasks) < MaxReadTasks

ReadConversationIds == {<<1, "lower">>, <<1, "upper">>}

ReadMark == \E c \in ReadConversationIds : ReadArrival /\ MarkReadStart(2, SocketUser(2), c)
ReadRestMark ==
  \E c \in {<<1, "lower">>, <<2, "lower">>} : ReadArrival /\ MarkReadStart(0, 2, c)
ReadSend == ReadArrival /\ SendStart(1, <<1, "lower">>, Hello)
ReadSendCreate == \E t \in TaskIds : SendCreate(t, TRUE)
ReadSendSave == \E t \in TaskIds : SendSave(t, TRUE)
ReadTick == now < StartTime + MaxReadTicks /\ Tick(1)

NextRead ==
  \/ ReadMark
  \/ ReadRestMark
  \/ ChatMarkReadFindConv
  \/ ChatMarkReadUpdate
  \/ ReadSend
  \/ ChatSendFindConv
  \/ ReadSendCreate
  \/ ReadSendSave
  \/ ReadTick

SpecRead == InitRead /\ [][NextRead]_vars

\* Fan-out: the participants join and leave the conversation and user 1
\* writes, each naming the conversation in lower or in upper case
MaxFanoutTasks == 3

FanoutArrival == Len(tasks) < MaxFanoutTasks
FanoutConversationIds == {<<1, "lower">>, <<1, "upper">>}

FanoutJoin ==
  \E s \in {1, 2}, c \in FanoutConversationIds : FanoutArrival /\ JoinStart(s, c)
FanoutLeave == \E s \in {1, 2}, c \in FanoutConversationIds : LeaveConversation(s, c)
FanoutSend == \E c \in FanoutConversationIds : FanoutArrival /\ SendStart(1, c, Hello)

NextFanout ==
  \/ FanoutJoin
  \/ ChatJoinFindConv
  \/ FanoutLeave
  \/ FanoutSend
  \/ ChatSendFindConv
  \/ ChatSendCreate
  \/ ChatSendSave

SpecFanout == InitChat /\ [][NextFanout]_vars

\* Closing connections: user 2 joins the conversation, user 1 writes, and
\* either connection may close at any moment, also while a handler of it is
\* suspended
MaxCloseTasks == 2

CloseArrival == Len(tasks) < MaxCloseTasks

CloseJoin == CloseArrival /\ JoinStart(2, <<1, "lower">>)
CloseSend == CloseArrival /\ SendStart(1, <<1, "lower">>, Hello)
CloseDisconnect == \E s \in {1, 2} : Disconnect(s)

NextClose ==
  \/ CloseJoin
  \/ ChatJoinFindConv
  \/ CloseSend
  \/ ChatSendFindConv
  \/ ChatSendCreate
  \/ ChatSendSave
  \/ CloseDisconnect

SpecClose == InitChat /\ [][NextClose]_vars

\* Typing: the participants join and leave the conversation, and every
\* user, also user 3 who is no participant, signals typing
MaxTypingTasks == 2
MaxTypingEvents == 2

TypingJoin ==
  \E s \in {1, 2} : Len(tasks) < MaxTypingTasks /\ JoinStart(s, <<1, "lower">>)
TypingLeave == \E s \in {1, 2} : LeaveConversation(s, <<1, "lower">>)
TypingSignal ==
  \E s \in Sockets, isTyping \in BOOLEAN :
    Len(events) < MaxTypingEvents /\ Typing(s, <<1, "lower">>, isTyping)

NextTyping ==
  \/ TypingJoin
  \/ ChatJoinFindConv
  \/ TypingLeave
  \/ TypingSignal

SpecTyping == InitChat /\ [][NextTyping]_vars

\* Conversation ids that name nothing: user 2 joins, writes and marks read
\* with the id of the stored conversation, with a well-formed id that no
\* conversation has, and with a string that is no ObjectId
MaxUniformTasks == 2

UniformArrival == Len(tasks) < MaxUniformTasks
UniformConversationIds == {<<1, "lower">>, <<9, "lower">>, <<1, "malformed">>}

UniformJoin == \E c \in UniformConversationIds : UniformArrival /\ JoinStart(2, c)
UniformSend == \E c \in UniformConversationIds : UniformArrival /\ SendStart(2, c, Hello)
UniformMark ==
  \E c \in UniformConversationIds : UniformArrival /\ MarkReadStart(2, SocketUser(2), c)

NextUniform ==
  \/ UniformJoin
  \/ ChatJoinFindConv
  \/ UniformSend
  \/ ChatSendFindConv
  \/ ReadSendCreate
  \/ ReadSendSave
  \/ UniformMark
  \/ ChatMarkReadFindConv
  \/ ChatMarkReadUpdate

SpecUniform == InitChat /\ [][NextUniform]_vars

\* Both participants write to the conversation, over a store that does not fail
MaxPointerTasks == 3

PointerSend ==
  \E s \in {1, 2} : Len(tasks) < MaxPointerTasks /\ SendStart(s, <<1, "lower">>, Hello)

NextPointer ==
  \/ PointerSend
  \/ ChatSendFindConv
  \/ ReadSendCreate
  \/ ReadSendSave

SpecPointer == InitChat /\ [][NextPointer]_vars

\* The limiter: user 1 has sent nine messages in the window that began at
\* the start; its two connections and user 2 go on sending, the handlers
\* interleave, and the clock moves to the deadline of that window
MaxLimitSends == 3
MaxLimitPending == 2

InitLimit ==
  /\ uniqueIndex = FALSE
  /\ posts = Jobs
  /\ conversations = <<NewConversation(<<1, 2>>, NoJob, 0)>>
  /\ calls = [p \in 1..MaxCalls |-> IdleCall]
  /\ events = <<>>
  /\ sockets = [s \in Sockets |-> Connected(s)]
  /\ userSockets = [u \in {SocketUser(s) : s \in Sockets} |->
                      {s \in Sockets : SocketUser(s) = u}]
  /\ messages = <<>>
  /\ messageRateLimit = [u \in {1} |-> [count |-> RateLimitMax - 1,
                                          resetTime |-> StartTime + RateWindow]]
  /\ now = StartTime
  /\ tasks = <<>>

LimitSend ==
  \E s \in {1, 2, 4} :
    /\ Len(tasks) < MaxLimitSends
    /\ Cardinality(Pending) < MaxLimitPending
    /\ SendStart(s, <<1, "lower">>, Hello)
LimitTick == now < StartTime + RateWindow /\ Tick(StartTime + RateWindow - now)

NextLimit ==
  \/ LimitSend
  \/ ChatSendFindConv
  \/ ReadSendCreate
  \/ ReadSendSave
  \/ LimitTick

SpecLimit == InitLimit /\ [][NextLimit]_vars

\* Connections come and go: four are accepted, two of them of user 1; each is
\* connected with or without an id in its token, the open ones signal typing
\* and close in any order
MaxPresenceEvents == 1

InitPresence ==
  /\ uniqueIndex = FALSE
  /\ posts = Jobs
  /\ conversations = <<NewConversation(<<1, 2>>, NoJob, 0)>>
  /\ calls = [p \in 1..MaxCalls |-> IdleCall]
  /\ events = <<>>
  /\ sockets = [s \in Sockets |-> Accepted]
  /\ userSockets = [u \in {} |-> {}]
  /\ messages = <<>>
  /\ messageRateLimit = <<>>
  /\ now = StartTime
  /\ tasks = <<>>

PresenceConnect == \E s \in Sockets, hasUserId \in BOOLEAN : Connect(s, hasUserId)
PresenceDisconnect == \E s \in Sockets : Disconnect(s)
PresenceTyping ==
  \E s \in Sockets :
    /\ Len(events) < MaxPresenceEvents
    /\ Typing(s, <<1, "lower">>, TRUE)

NextPresence ==
  \/ PresenceConnect
  \/ PresenceDisconnect
  \/ PresenceTyping

SpecPresence == InitPresence /\ [][NextPresence]_vars

\* The same over a store that does not fail; a suspended handler is resumed
\* when the promise it awaits resolves
NextCloseSend ==
  \/ CloseJoin
  \/ ChatJoinFindConv
  \/ CloseSend
  \/ ChatSendFindConv
  \/ ReadSendCreate
  \/ ReadSendSave
  \/ CloseDisconnect

SpecCloseSend ==
  /\ InitChat
  /\ [][NextCloseSend]_vars
  /\ WF_vars(ChatSendFindConv)
  /\ WF_vars(ReadSendCreate)
  /\ WF_vars(ReadSendSave)

---------------------------------------------------------------------------
(* Properties of the resolver *)

Done(p) == calls[p].pc = "done"
Ok(p) == Done(p) /\ calls[p].status = 200
Pair(p) == {calls[p].caller, ObjectId(calls[p].userId)}
CallIds == 1..MaxCalls
CreatedBy(p) == {k \in ConvIds : conversations[k].createdBy = p}
EmittedBy(p) == {i \in DOMAIN events : events[i].src = p}

\* C1: for every pair of distinct users and every job context, whatever the
\* interleaving of the getOrCreateConversation calls, the store holds at most
\* one conversation of that pair and job, and all successful calls for the
\* pair and job return the same conversation id.
C1_Uniqueness ==
  /\ \A k1, k2 \in ConvIds :
       (/\ k1 # k2
        /\ Cardinality(Range(conversations[k1].users)) = 2
        /\ Range(conversations[k1].users) = Range(conversations[k2].users))
       => conversations[k1].job # conversations[k2].job
  /\ \A p, q \in CallIds :
       (/\ Ok(p) /\ Ok(q)
        /\ Cardinality(Pair(p)) = 2
        /\ Pair(p) = Pair(q)
        /\ calls[p].jobId = calls[q].jobId)
       => calls[p].conv = calls[q].conv

\* the two calls of a symmetric pair: p by A for B, then q by B for A
Symmetric(p, q) ==
  /\ p < q /\ Done(p) /\ Done(q)
  /\ calls[p].userId # Missing /\ calls[q].userId # Missing
  /\ calls[p].caller # calls[q].caller
  /\ ObjectId(calls[p].userId) = calls[q].caller
  /\ ObjectId(calls[q].userId) = calls[p].caller
  /\ calls[p].jobId = calls[q].jobId

\* C2: when A resolves (B, J) and then B resolves (A, J), one call after the
\* other, both calls end alike and a success returns the same conversation
\* id to both; without the legacy index and with an existing job (or none)
\* both succeed.
C2_Symmetry ==
  \A p, q \in CallIds :
    Symmetric(p, q) =>
      /\ calls[p].status = calls[q].status
      /\ Ok(p) => calls[p].conv = calls[q].conv
      /\ (~uniqueIndex /\ calls[p].jobId \in Jobs \cup {NoJob}) => Ok(p) /\ Ok(q)

C2_Witness ==
  \E p, q \in CallIds :
    /\ Symmetric(p, q) /\ Ok(p) /\ Ok(q)
    /\ calls[p].isNew /\ calls[p].conv = calls[q].conv

SameArguments(p, q) ==
  /\ p < q /\ Done(p) /\ Done(q)
  /\ calls[p].caller = calls[q].caller
  /\ calls[p].userId = calls[q].userId
  /\ calls[p].jobId = calls[q].jobId

\* C3: once a call has answered with a conversation, every later sequential
\* call with the same arguments answers with the same conversation id,
\* creates no conversation and emits no new_conversation.
C3_Idempotence ==
  \A p, q \in CallIds :
    (SameArguments(p, q) /\ Ok(p)) =>
      /\ Ok(q)
      /\ calls[q].conv = calls[p].conv
      /\ ~calls[q].isNew
      /\ CreatedBy(q) = {}
      /\ EmittedBy(q) = {}

C3_Witness ==
  \E p, q \in CallIds :
    /\ SameArguments(p, q) /\ Ok(p) /\ Ok(q)
    /\ calls[p].isNew /\ CreatedBy(p) = {calls[p].conv}
    /\ calls[q].conv = calls[p].conv

\* C4: two successful resolves of the same user pair with different job
\* contexts (none and J, or J1 and J2) return different conversation ids,
\* each returns a conversation of its own job context, and no step of a
\* resolve changes a conversation that is already stored.
C4_JobIsIdentity ==
  /\ [](\A p, q \in CallIds :
         (/\ Ok(p) /\ Ok(q)
          /\ Pair(p) = Pair(q)
          /\ calls[p].jobId # calls[q].jobId)
         => /\ calls[p].conv # calls[q].conv
            /\ conversations[calls[p].conv].job = calls[p].jobId
            /\ conversations[calls[q].conv].job = calls[q].jobId)
  /\ [][\A k \in ConvIds : conversations'[k] = conversations[k]]_vars

C4_Witness ==
  \E p, q \in CallIds :
    /\ Ok(p) /\ Ok(q) /\ p < q
    /\ Pair(p) = Pair(q) /\ Cardinality(Pair(p)) = 2
    /\ calls[p].jobId = NoJob /\ calls[q].jobId \in Jobs
    /\ calls[p].isNew /\ calls[q].isNew
    /\ calls[p].conv # calls[q].conv

\* C5: a call whose other user is the caller (the same user id) ends with
\* status 400, creates no conversation and emits nothing.
C5_SelfRejected ==
  \A p \in CallIds :
    (/\ calls[p].pc # "idle"
     /\ calls[p].userId # Missing
     /\ ObjectId(calls[p].userId) = calls[p].caller)
    => /\ Done(p) => calls[p].status = 400
       /\ CreatedBy(p) = {}
       /\ EmittedBy(p) = {}

---------------------------------------------------------------------------
(* Properties of the channel *)

Participants(c) == Range(conversations[c].users)
Sends == {t \in TaskIds : tasks[t].kind = "send"}
StoredBy(t) == {m \in MsgIds : messages[m].task = t}
Outsider(t) ==
  /\ ConversationExists(tasks[t].convId)
  /\ tasks[t].user \notin Participants(ObjectId(tasks[t].convId))

\* C6: a user who is no participant of a conversation never joins its room,
\* never has a message of theirs stored in it and never changes the read
\* state of its messages, by join_conversation, send_message, mark_read or
\* the REST markMessagesAsRead: each such attempt ends refused.
C6_Membership ==
  /\ [](/\ \A s \in Sockets : \A room \in sockets[s].rooms :
            room[1] = "conversation" =>
              /\ ObjectId(room[2]) \in ConvIds
              /\ SocketUser(s) \in Participants(ObjectId(room[2]))
        /\ \A m \in MsgIds :
            messages[m].sender \in Participants(messages[m].conversation)
        /\ \A t \in TaskIds :
            Outsider(t) => /\ tasks[t].pc \in {"findConv", "done"}
                           /\ tasks[t].result \in {"", "denied"}
                           /\ StoredBy(t) = {})
  /\ [][\A m \in MsgIds :
         messages'[m].isRead # messages[m].isRead =>
           \E t \in TaskIds : /\ tasks[t].pc = "update" /\ tasks'[t].pc = "done"
                              /\ messages[m].conversation = ObjectId(tasks[t].convId)
                              /\ ~Outsider(t)]_vars

C6_Witness ==
  /\ \E t \in TaskIds : Outsider(t) /\ tasks[t].kind = "send" /\ tasks[t].result = "denied"
  /\ \E t \in TaskIds : Outsider(t) /\ tasks[t].kind = "join" /\ tasks[t].result = "denied"
  /\ \E t \in TaskIds : Outsider(t) /\ tasks[t].kind \in {"mark_read", "rest_mark_read"}
                        /\ tasks[t].result = "denied"

\* the sends of the user of send t, and the one before t
SendsOf(user) == {t \in Sends : tasks[t].user = user}
EarlierSends(t) == {j \in SendsOf(tasks[t].user) : j < t}

\* The window each send falls in, by task: a window opens with the user's
\* first send, and with each send that comes 60 seconds or more after the
\* window before it opened. WindowStarts(n) lists them for tasks 1..n.
RECURSIVE WindowStarts(_)
WindowStarts(n) ==
  IF n = 0 THEN <<>>
  ELSE LET before == WindowStarts(n - 1)
           earlier == {j \in Sends : j < n /\ tasks[j].user = tasks[n].user}
       IN Append(before,
                 IF n \notin Sends THEN 0
                 ELSE IF earlier = {} THEN tasks[n].at
                 ELSE IF tasks[n].at >= before[Max(earlier)] + RateWindow THEN tasks[n].at
                 ELSE before[Max(earlier)])

\* the rank of send t among the sends of its user in its window
PositionInWindow(starts, t) ==
  Cardinality({j \in SendsOf(tasks[t].user) : j <= t /\ starts[j] = starts[t]})

\* C7: of the valid sends of a participant, the first 10 of a 60-second
\* window are accepted (and stored), every further one inside the window is
\* refused as rate limited, and a send at or after the deadline of the window
\* opens a new window and is accepted.
C7_RateLimitBoundary ==
  LET starts == WindowStarts(Len(tasks)) IN
  \A t \in Sends :
    /\ PositionInWindow(starts, t) <= RateLimitMax =>
         /\ tasks[t].result \in {"", "sent"}
         /\ tasks[t].pc = "done" => StoredBy(t) # {}
    /\ PositionInWindow(starts, t) > RateLimitMax =>
         /\ tasks[t].result = "rate_limited"
         /\ StoredBy(t) = {}

C7_Witness ==
  LET starts == WindowStarts(Len(tasks)) IN
  \E t, u \in Sends :
    /\ t < u
    /\ PositionInWindow(starts, t) = RateLimitMax + 1
    /\ tasks[t].result = "rate_limited"
    /\ tasks[u].at = starts[t] + RateWindow
    /\ tasks[u].result = "sent"

\* C8: in every interval of 60 seconds, wherever it starts, at most 10
\* messages of one user are accepted and stored.
C8_RollingQuota ==
  \A t \in Sends :
    Cardinality({j \in SendsOf(tasks[t].user) :
                   /\ StoredBy(j) # {}
                   /\ tasks[j].at >= tasks[t].at
                   /\ tasks[j].at < tasks[t].at + RateWindow}) <= RateLimitMax

ByParticipant(t) ==
  /\ ConversationExists(tasks[t].convId)
  /\ tasks[t].user \in Participants(ObjectId(tasks[t].convId))

WithinQuota(t) == Cardinality(EarlierSends(t)) < RateLimitMax

RefusedUnstored(t) ==
  /\ tasks[t].pc = "done"
  /\ tasks[t].result \in {"empty", "too_long", "rate_limited", "link", "phone"}
  /\ StoredBy(t) = {}

StoredTrimmed(t) ==
  /\ tasks[t].result = "sent"
  /\ \E m \in StoredBy(t) : messages[m].content = Trim(tasks[t].content)

\* C9 as it was claimed: a send whose content is URL-like or phone-like is
\* refused and stores nothing; a send by a participant within the quota whose
\* content is not empty, at most 5000 characters long and matches neither
\* pattern is accepted and stored.
C9_ContentPolicyAsClaimed ==
  \A t \in Sends :
    /\ tasks[t].content \in UrlSamples \cup PhoneSamples => RefusedUnstored(t)
    /\ (/\ tasks[t].content \in CleanSamples \cup BlankSamples
        /\ Length(tasks[t].content) > 0
        /\ ByParticipant(t) /\ WithinQuota(t)
        /\ tasks[t].pc = "done")
       => StoredTrimmed(t)

\* C9: a send whose content is URL-like or phone-like is refused and stores
\* nothing; a send by a participant within the quota whose content has a
\* character that is not white space, is at most 5000 characters long and
\* matches neither pattern is accepted, and stored unless the store fails.
C9_ContentPolicy ==
  \A t \in Sends :
    /\ tasks[t].content \in UrlSamples \cup PhoneSamples => RefusedUnstored(t)
    /\ (/\ tasks[t].content \in CleanSamples
        /\ ByParticipant(t) /\ WithinQuota(t)
        /\ tasks[t].pc = "done")
       => \/ StoredTrimmed(t)
          \/ tasks[t].result = "failed"
    /\ tasks[t].content \in BlankSamples => RefusedUnstored(t)

C9_Witness ==
  \E t, u \in Sends :
    /\ tasks[t].content \in UrlSamples \cup PhoneSamples
    /\ tasks[t].result \in {"link", "phone"}
    /\ RefusedUnstored(t)
    /\ tasks[u].content = Content(<<"h", "i">>, MaxContentLength - 2)
    /\ StoredTrimmed(u)

SameConnection(t, u) ==
  /\ tasks[t].sock = tasks[u].sock
  /\ tasks[t].convId = tasks[u].convId

Broadcasts == {e \in DOMAIN events : events[e].type = "new_message"}

\* C10: when one connection emits two send_message events for one
\* conversation, the messages are stored in the order of the events, and
\* broadcast (new_message) in that order.
C10_ConnectionOrder ==
  /\ \A m, n \in MsgIds :
       (SameConnection(messages[m].task, messages[n].task)
        /\ messages[m].task < messages[n].task) => m < n
  /\ \A e, f \in Broadcasts :
       (SameConnection(events[e].src, events[f].src)
        /\ events[e].src < events[f].src) => e < f

---------------------------------------------------------------------------
(* Properties of the read state *)

MarkReads == {t \in TaskIds : tasks[t].kind \in {"mark_read", "rest_mark_read"}}

\* task u runs its updateMany in this step
Updates(u) == tasks[u].pc = "update" /\ tasks'[u].pc = "done"

\* an earlier mark_read of the same user on the same conversation has run its
\* updateMany, and no message has been stored since
MarkedBefore(u) ==
  \E t \in MarkReads \ {u} :
    /\ tasks[t].pc = "done" /\ tasks[t].result = "read"
    /\ tasks[t].user = tasks[u].user
    /\ ObjectId(tasks[t].convId) = ObjectId(tasks[u].convId)
    /\ tasks[t].seen = Len(messages)

\* C11: a mark_read (socket or REST) by a participant never ends with an
\* error, and when it follows a mark_read of the same user on the same
\* conversation with no message stored in between, it leaves every message
\* (isRead and readAt included) as it was.
C11_ReadIdempotence ==
  /\ [](\A t \in MarkReads :
         (ByParticipant(t) /\ tasks[t].pc = "done") => tasks[t].result = "read")
  /\ [][\A u \in MarkReads : (Updates(u) /\ MarkedBefore(u)) => messages' = messages]_vars

C11_Witness ==
  \E t, u \in MarkReads :
    /\ t < u
    /\ tasks[t].result = "read" /\ tasks[u].result = "read"
    /\ tasks[t].user = tasks[u].user
    /\ ObjectId(tasks[t].convId) = ObjectId(tasks[u].convId)
    /\ tasks[t].seen = tasks[u].seen
    /\ tasks[t].at < tasks[u].at
    /\ \E m \in MsgIds : messages[m].isRead /\ messages[m].readAt < tasks[u].at

\* the room of conversation c: the one its id names
RoomOf(c) == ConversationRoom(Str(c))

\* C12: the updateMany of a mark_read by user U on conversation C sets isRead
\* and stamps readAt on exactly the unread messages of C that U did not
\* send, changes no other message, and the socket handler then emits
\* messages_read naming U to the room of C.
C12_MarkReadEffect ==
  [][\A u \in MarkReads :
       Updates(u) =>
         LET c == ObjectId(tasks[u].convId)
             user == tasks[u].user
         IN /\ Len(messages') = Len(messages)
            /\ \A m \in MsgIds :
                 messages'[m] =
                   IF /\ messages[m].conversation = c
                      /\ messages[m].sender # user
                      /\ ~messages[m].isRead
                   THEN [messages[m] EXCEPT !.isRead = TRUE, !.readAt = now]
                   ELSE messages[m]
            /\ tasks[u].kind = "mark_read" =>
                 /\ Len(events') = Len(events) + 1
                 /\ events'[Len(events')].type = "messages_read"
                 /\ events'[Len(events')].ref = user
                 /\ events'[Len(events')].room = RoomOf(c)]_vars

---------------------------------------------------------------------------
(* Properties of a send that is refused or fails *)

\* what send t was answered when it was refused for its content or for
\* non-membership
Refusals == {"empty", "too_long", "link", "phone", "denied"}

EventsOf(t) == {e \in DOMAIN events : events[e].src = t}

\* the sends of a user that the rate limiter is to count: all but the refused
Counted(user) ==
  {t \in SendsOf(user) : tasks[t].result \notin Refusals \cup {"rate_limited"}}

\* C13: a send refused for empty or oversized content, for a link or a phone
\* number, or for non-membership stores no message, emits nothing, leaves
\* the last-message pointer alone and leaves the sender's rate-limit counter
\* as it was: within one window the counter of a user is the number of the
\* user's sends that were not refused.
C13_RefusedNoMutation ==
  /\ \A t \in Sends :
       tasks[t].result \in Refusals =>
         /\ StoredBy(t) = {}
         /\ EventsOf(t) = {}
         /\ \A c \in ConvIds : conversations[c].lastMessage \notin StoredBy(t)
  /\ \A user \in Users :
       (IF HasLimit(user) THEN messageRateLimit[user].count ELSE 0)
         = Cardinality(Counted(user))

\* C14: a send that has not ended as sent (it is still running, was refused,
\* or failed in Message.create or in the save) has emitted no new_message and
\* no message_notification, and every new_message or message_notification
\* carries a message that is stored, by the send that emitted it.
C14_NoPartialDelivery ==
  /\ \A t \in Sends : tasks[t].result # "sent" => EventsOf(t) = {}
  /\ \A e \in DOMAIN events :
       events[e].type \in {"new_message", "message_notification"} =>
         /\ events[e].ref \in MsgIds
         /\ messages[events[e].ref].task = events[e].src
         /\ tasks[events[e].src].result = "sent"

C14_Witness ==
  /\ \E t \in Sends : /\ tasks[t].result = "failed"
                       /\ StoredBy(t) # {}
                       /\ EventsOf(t) = {}
  /\ \E t \in Sends : /\ tasks[t].result = "failed"
                       /\ StoredBy(t) = {}
  /\ \E t \in Sends, e \in Broadcasts : tasks[t].result = "sent" /\ events[e].src = t

---------------------------------------------------------------------------
(* Recovery from a duplicate key *)

Recovering == {p \in 1..MaxCalls : calls[p].dupKey}

\* the time the retry loop has slept before round n + 1: 500 + 1000 + ...
RECURSIVE SleptAfter(_)
SleptAfter(n) == IF n = 0 THEN 0 ELSE SleptAfter(n - 1) + n * RetryDelay

\* the rounds a recovering request has slept for
Rounds(c) ==
  IF c.pc = "retrySleep" THEN MaxRetries - c.retries
  ELSE IF c.pc \in {"retryFindOne", "retryFindAll"} THEN MaxRetries - c.retries + 1
  ELSE IF c.status = 500 THEN MaxRetries
  ELSE MaxRetries - c.retries + 1

\* C15: after Conversation.create fails with a duplicate key the request
\* queries again at most three times, sleeping 500, 1000 and 1500 ms before
\* the rounds; a round whose query returns a conversation ends the request with
\* 200 and that stored conversation, which the request did not create, and a
\* request whose three rounds all find nothing answers 500: a recovering
\* request never answers 200 without a conversation.
C15_DuplicateKeyRecovery ==
  /\ [](\A p \in Recovering :
          LET c == calls[p] IN
          /\ c.retries \in 0..MaxRetries
          /\ Rounds(c) \in 0..MaxRetries
          /\ c.slept = SleptAfter(Rounds(c))
          /\ c.pc = "retrySleep" => c.delay = (Rounds(c) + 1) * RetryDelay
          /\ c.pc = "done" =>
               \/ /\ c.status = 200
                  /\ c.conv \in ConvIds
                  /\ ~c.isNew
                  /\ UsersAll(conversations[c.conv], TargetUserIds(c))
                  /\ conversations[c.conv].job = c.jobId
               \/ /\ c.status = 500
                  /\ c.conv = NoConv
                  /\ c.retries = 0
                  /\ c.slept = SleptAfter(MaxRetries))
  /\ [][\A p \in Recovering :
          /\ (calls[p].pc = "retryFindOne" /\ FindOneAll(calls[p]) # NoConv) =>
               (calls'[p] # calls[p] =>
                  /\ calls'[p].pc = "done" /\ calls'[p].status = 200
                  /\ calls'[p].conv = FindOneAll(calls[p]))
          /\ (calls[p].pc = "retryFindAll" /\ FindAllFiltered(calls[p]) # NoConv) =>
               (calls'[p] # calls[p] =>
                  /\ calls'[p].pc = "done" /\ calls'[p].status = 200
                  /\ calls'[p].conv = FindAllFiltered(calls[p]))]_vars

\* a request gave up after its three rounds: the document in its way has
\* one user in common with the pair the request asked for
GaveUp ==
  \E p \in Recovering : calls[p].pc = "done" /\ calls[p].status = 500

\* a request recovered with the conversation that was in its way
C15_Witness ==
  \E p \in Recovering :
    /\ calls[p].pc = "done" /\ calls[p].status = 200
    /\ calls[p].slept = RetryDelay
    /\ conversations[calls[p].conv].createdBy # p
---------------------------------------------------------------------------
(* The notification of a new conversation *)

NewConversationEvents == {e \in DOMAIN events : events[e].type = "new_conversation"}
NotifiedBy(p) == {e \in NewConversationEvents : events[e].src = p}

\* the user room of the participant a request names: the room that user's
\* connections joined
OtherUserRoom(p) == UserRoom(Str(ObjectId(calls[p].userId)))

\* C16: a request that answered has emitted one new_conversation event if it
\* created the conversation it returns and none otherwise (it found one, or it
\* recovered from a duplicate key), so that there are as many events as
\* conversations created by answered requests; and each event is addressed to
\* the user room of the other participant and to no other room.
C16_NotifiedWhenCreated ==
  /\ \A p \in CallIds :
       Done(p) => Cardinality(NotifiedBy(p)) = Cardinality(CreatedBy(p))
  /\ \A p \in CallIds : Done(p) /\ (~calls[p].isNew \/ calls[p].dupKey) => NotifiedBy(p) = {}
  /\ \A e \in NewConversationEvents :
       /\ events[e].ref \in CreatedBy(events[e].src)
       /\ events[e].room = OtherUserRoom(events[e].src)

\* C17: a request that created a conversation answers 200 with that
\* conversation also when the socket service is absent or the notification
\* throws, in which case no event is emitted; and no step removes or changes a
\* stored conversation's users or job.
C17_NotifyFailureIsolated ==
  /\ [](\A p \in CallIds :
          Done(p) /\ calls[p].isNew =>
            /\ calls[p].status = 200
            /\ calls[p].conv \in CreatedBy(p)
            /\ calls[p].notify \in NotifyOutcomes
            /\ calls[p].notify # "emitted" => NotifiedBy(p) = {})
  /\ [][/\ Len(conversations') >= Len(conversations)
        /\ \A k \in ConvIds : /\ conversations'[k].users = conversations[k].users
                               /\ conversations'[k].job = conversations[k].job]_vars

\* one request created a conversation with the service absent, another one
\* while the notification threw; both answered 200
C17_Witness ==
  \E p, q \in CallIds :
    /\ Ok(p) /\ calls[p].isNew /\ calls[p].notify = "absent"
    /\ Ok(q) /\ calls[q].isNew /\ calls[q].notify = "throws"
    /\ events = <<>>
    /\ {calls[p].conv, calls[q].conv} = ConvIds
---------------------------------------------------------------------------
(* References of a conversation *)

NotFound(p) == Done(p) /\ calls[p].status = 404

\* C18: a request that names a user or a job that is not stored answers 404
\* and creates no conversation; and a conversation is inserted only with two
\* stored users and, if it has a job, a job post that is stored at the moment
\* of the insert.
C18_ReferencesExist ==
  /\ [](\A p \in CallIds :
          /\ NotFound(p) => CreatedBy(p) = {}
          /\ Done(p) /\ calls[p].status # 400 /\ ObjectId(calls[p].userId) \notin Users =>
               NotFound(p)
          /\ Done(p) /\ calls[p].status # 400 /\ calls[p].jobId \notin Jobs \cup {NoJob} =>
               NotFound(p))
  /\ [][\A k \in DOMAIN conversations' \ DOMAIN conversations :
          /\ Range(conversations'[k].users) \subseteq Users
          /\ conversations'[k].job # NoJob => conversations'[k].job \in posts]_vars

\* the part of C18 about users and unknown ids alone
C18_UsersExist ==
  /\ \A p \in CallIds :
       /\ NotFound(p) => CreatedBy(p) = {}
       /\ Done(p) /\ calls[p].status # 400 /\ ObjectId(calls[p].userId) \notin Users =>
            NotFound(p)
       /\ Done(p) /\ calls[p].status # 400 /\ calls[p].jobId \notin Jobs \cup {NoJob} =>
            NotFound(p)
  /\ \A k \in ConvIds : Range(conversations[k].users) \subseteq Users
---------------------------------------------------------------------------
(* Fan-out of a send *)

\* the connection has joined conversation c and not left it
InConversation(s, c) ==
  /\ sockets[s].state = "open"
  /\ \E x \in IdStrings({c}) : ConversationRoom(x) \in sockets[s].rooms

\* the events a step emits
Emitted == {e \in DOMAIN events' : e > Len(events)}

\* C19: the step of a send that updates the conversation's last message emits
\* new_message to every connection that has joined the conversation at that
\* moment, and one message_notification to the user room of each participant
\* other than the sender and to no other room; and new_message is emitted
\* only for a message that is stored.
C19_FanOut ==
  [][\A t \in TaskIds :
       (tasks[t].kind = "send" /\ tasks[t].result # "sent" /\ tasks'[t].result = "sent") =>
         LET c == ObjectId(tasks[t].convId)
             others == Range(conversations[c].users) \ {tasks[t].user} IN
         /\ tasks[t].msg \in MsgIds
         /\ conversations'[c].lastMessage = tasks[t].msg
         /\ \E e \in Emitted :
              /\ events'[e].type = "new_message"
              /\ events'[e].ref = tasks[t].msg
              /\ events'[e].to = {s \in Sockets : InConversation(s, c)}
         /\ {events'[e].room : e \in {x \in Emitted : events'[x].type = "message_notification"}}
              = {UserRoom(Str(u)) : u \in others}
         /\ \A e \in Emitted :
              events'[e].type = "message_notification" =>
                /\ events'[e].ref = tasks[t].msg
                /\ events'[e].to = {s \in Sockets : sockets[s].state = "open"
                                                      /\ SocketUser(s) \in others}]_vars

\* the same with the room taken by its name as the sender wrote it
C19_FanOutByName ==
  [][\A t \in TaskIds :
       (tasks[t].kind = "send" /\ tasks[t].result # "sent" /\ tasks'[t].result = "sent") =>
         LET c == ObjectId(tasks[t].convId)
             others == Range(conversations[c].users) \ {tasks[t].user} IN
         /\ tasks[t].msg \in MsgIds
         /\ conversations'[c].lastMessage = tasks[t].msg
         /\ \E e \in Emitted :
              /\ events'[e].type = "new_message"
              /\ events'[e].ref = tasks[t].msg
              /\ events'[e].to = InRoom(ConversationRoom(tasks[t].convId))
         /\ {events'[e].room : e \in {x \in Emitted : events'[x].type = "message_notification"}}
              = {UserRoom(Str(u)) : u \in others}
         /\ \A e \in Emitted :
              events'[e].type = "message_notification" =>
                /\ events'[e].ref = tasks[t].msg
                /\ events'[e].to = {s \in Sockets : sockets[s].state = "open"
                                                      /\ SocketUser(s) \in others}]_vars
---------------------------------------------------------------------------
(* Disconnect *)

Closed(s) == sockets[s].state = "closed"
Tracked(s) == \E u \in DOMAIN userSockets : s \in userSockets[u]

C20_NoDeliveryAfterDisconnect ==
  /\ [](\A s \in Sockets : Closed(s) => ~Tracked(s))
  /\ [][\A s \in Sockets :
          Closed(s) => /\ sockets'[s].state = "closed"
                       /\ \A e \in Emitted : s \notin events'[e].to]_vars
---------------------------------------------------------------------------
(* A send whose connection closes *)

\* the sends that were suspended when their connection closed
CutSends == {t \in TaskIds : tasks[t].kind = "send" /\ t \in sockets[tasks[t].sock].cut}

\* C21: a send_message of a participant that was suspended at an await when
\* its connection disconnected still runs to its end over a working store:
\* its message is stored, the step that ends it sets the conversation's
\* lastMessage to that message, and it has emitted new_message to the
\* conversation's room and message_notification to the other participant.
C21_DisconnectCancelsNoSend ==
  /\ [](\A t \in CutSends :
          tasks[t].pc = "done" =>
            /\ tasks[t].result = "sent"
            /\ tasks[t].msg \in MsgIds
            /\ messages[tasks[t].msg].task = t
            /\ \E e \in DOMAIN events :
                 /\ events[e].type = "new_message" /\ events[e].src = t
                 /\ events[e].ref = tasks[t].msg
                 /\ events[e].room = ConversationRoom(tasks[t].convId)
            /\ \E e \in DOMAIN events :
                 /\ events[e].type = "message_notification" /\ events[e].src = t
                 /\ events[e].ref = tasks[t].msg
                 /\ events[e].room = UserRoom(Str(2))
                 /\ Closed(2) \/ 2 \in events[e].to)
  /\ [][\A t \in CutSends :
          tasks[t].pc # "done" /\ tasks'[t].pc = "done" =>
            conversations'[ObjectId(tasks[t].convId)].lastMessage = tasks[t].msg]_vars
  /\ \A t \in 1..MaxCloseTasks :
       (t \in CutSends) ~> (t \in CutSends /\ tasks[t].pc = "done")

\* the sender closed while its send awaited Conversation.findById; the send
\* went on, and the other participant's connection got the notification
C21_Witness ==
  \E t \in CutSends :
    /\ tasks[t].result = "sent"
    /\ conversations[1].lastMessage = tasks[t].msg
    /\ \E e \in DOMAIN events :
         /\ events[e].type = "message_notification" /\ events[e].src = t
         /\ 2 \in events[e].to
---------------------------------------------------------------------------
(* Typing *)

TypingEmitted == {e \in Emitted : events'[e].type = "user_typing"}

\* C22: a typing event reaches somebody only if the connection that emits it
\* is in the room of the conversation it names; it is delivered as
\* user_typing to the other connections of that room, never to the emitter,
\* and it changes no conversation and no message.
C22_TypingByRoomMembers ==
  [][\A e \in TypingEmitted :
       /\ events'[e].to # {} => events'[e].room \in sockets[events'[e].src].rooms
       /\ events'[e].to = InRoom(events'[e].room) \ {events'[e].src}
       /\ conversations' = conversations
       /\ messages' = messages]_vars

\* the same without the test of the emitter's membership
C22_TypingToOthers ==
  [][\A e \in TypingEmitted :
       /\ events'[e].to = InRoom(events'[e].room) \ {events'[e].src}
       /\ conversations' = conversations
       /\ messages' = messages]_vars
---------------------------------------------------------------------------
(* A conversation id that names nothing *)

NamesNothing(conversationId) ==
  ~WellFormed(conversationId) \/ ObjectId(conversationId) \notin ConvIds

\* the handler invocations that have got past await Conversation.findById
\* with an id that names no conversation
Unnamed == {t \in TaskIds : /\ tasks[t].pc = "done"
                            /\ tasks[t].result \notin {"empty", "too_long", "rate_limited",
                                                        "link", "phone"}
                            /\ NamesNothing(tasks[t].convId)}

\* no join, no stored message, no update and no event by invocation t
NoEffect(t) ==
  /\ ConversationRoom(tasks[t].convId) \notin sockets[tasks[t].sock].rooms
  /\ \A m \in MsgIds : messages[m].task # t
  /\ tasks[t].seen = 0
  /\ \A e \in DOMAIN events : events[e].src # t

\* C23: join_conversation, send_message and mark_read with a conversation id
\* that names no stored conversation, be it the id of none or a string that is
\* no id, answer 'Conversation not found' and join, store and update nothing.
C23_UniformNotFound ==
  \A t \in Unnamed : tasks[t].result = "not_found" /\ NoEffect(t)

\* what holds of them: no effect, and 'Conversation not found' for an id that
\* is well formed
C23_NoEffectOfUnknown ==
  \A t \in Unnamed :
    /\ NoEffect(t)
    /\ WellFormed(tasks[t].convId) => tasks[t].result = "not_found"
---------------------------------------------------------------------------
(* The sender of a message *)

\* C24: in every state, whatever handlers interleave, every stored message
\* belongs to a stored conversation and its sender is one of the
\* participants of that conversation, namely the user of the connection that
\* sent it.
C24_SenderIsParticipant ==
  \A m \in MsgIds :
    /\ messages[m].conversation \in ConvIds
    /\ messages[m].sender \in Range(conversations[messages[m].conversation].users)
    /\ messages[m].task \in Sends
    /\ messages[m].sender = SocketUser(tasks[messages[m].task].sock)

\* user 3, who is no participant, sent first and was refused; the message of
\* user 1, sent after it, is the only one stored
C24_Witness ==
  \E t, u \in Sends :
    /\ t > u
    /\ tasks[u].user = 3 /\ tasks[u].result = "denied"
    /\ tasks[t].user = 1 /\ tasks[t].result = "sent"
    /\ \E m \in MsgIds : messages[m].task = t /\ m = 1
    /\ Len(messages) = 1
---------------------------------------------------------------------------
(* The pointer to the last message *)

MessagesOf(c) == {m \in MsgIds : messages[m].conversation = c}
SendsInFlight(c) ==
  {t \in Sends : tasks[t].pc # "done" /\ WellFormed(tasks[t].convId)
                                       /\ ObjectId(tasks[t].convId) = c}

\* C25: whenever no send_message is suspended on a conversation that has a
\* stored message, the conversation's lastMessage is the message of that
\* conversation that was stored last.
C25_LastMessagePointer ==
  \A c \in ConvIds :
    SendsInFlight(c) = {} /\ MessagesOf(c) # {} =>
      conversations[c].lastMessage = Max(MessagesOf(c))

\* what holds of the pointer: it is a message of the conversation
C25_PointerInConversation ==
  \A c \in ConvIds :
    conversations[c].lastMessage # 0 => conversations[c].lastMessage \in MessagesOf(c)
---------------------------------------------------------------------------
(* The participants of a conversation *)

\* no step removes a stored conversation or changes its users or its job
ConversationsKept ==
  /\ Len(conversations') >= Len(conversations)
  /\ \A k \in ConvIds : /\ conversations'[k].users = conversations[k].users
                         /\ conversations'[k].job = conversations[k].job

\* C26: every stored conversation has exactly two participants, who are two
\* distinct users, and no step changes the participants or the job of a
\* stored conversation or removes it.
C26_TwoDistinctParticipants ==
  /\ [](\A k \in ConvIds : /\ Len(conversations[k].users) = 2
                            /\ conversations[k].users[1] # conversations[k].users[2])
  /\ [][ConversationsKept]_vars

\* what holds: two entries, and nothing changes or removes them
C26_ParticipantsKept ==
  /\ [](\A k \in ConvIds : Len(conversations[k].users) = 2)
  /\ [][ConversationsKept]_vars
---------------------------------------------------------------------------
(* The conversation a request returns *)

\* the conversation request p returned has exactly the participants and the
\* job the request asked for
ExactMatch(p) ==
  LET conv == conversations[calls[p].conv] IN
  /\ Len(conv.users) = 2
  /\ Range(conv.users) = Pair(p)
  /\ conv.job = calls[p].jobId

\* C27: every request that answers 200 returns a stored conversation whose
\* participants are exactly the caller and the other user and whose job is
\* the requested one (none for none), whether the conversation was found by
\* the first query or the double check, created, or found by a query of the
\* duplicate-key retry.
C27_ExactMatch ==
  \A p \in CallIds : Ok(p) => calls[p].conv \in ConvIds /\ ExactMatch(p)

\* the same for the requests that name another user than the caller
C27_ExactMatchOfOthers ==
  \A p \in CallIds :
    Ok(p) /\ ObjectId(calls[p].userId) # calls[p].caller =>
      calls[p].conv \in ConvIds /\ ExactMatch(p)
---------------------------------------------------------------------------
(* The read state of a message *)

\* C28: a message that is read stays read, a message has a readAt date
\* exactly when it is read, and once stored a message keeps its content, its
\* sender and its conversation and is never removed.
C28_ReadStateMonotonic ==
  /\ [](\A m \in MsgIds : messages[m].isRead <=> messages[m].readAt # 0)
  /\ [][/\ Len(messages') >= Len(messages)
        /\ \A m \in MsgIds :
             /\ messages[m].isRead => messages'[m].isRead
             /\ messages[m].isRead => messages'[m].readAt = messages[m].readAt
             /\ messages'[m].content = messages[m].content
             /\ messages'[m].sender = messages[m].sender
             /\ messages'[m].conversation = messages[m].conversation]_vars

\* one message was read at the start, another one after the clock moved, and
\* a third one is unread and has no date
C28_Witness ==
  \E m, n \in MsgIds :
    /\ messages[m].isRead /\ messages[m].readAt = StartTime
    /\ messages[n].isRead /\ messages[n].readAt > StartTime
    /\ \E o \in MsgIds : ~messages[o].isRead /\ messages[o].readAt = 0
---------------------------------------------------------------------------
(* The state of the rate limiter *)

\* the sends that went through the limiter's test
Passed(t) == tasks[t].result \notin {"empty", "too_long", "rate_limited"}

\* the sends user u had passed in the first window before the run began
PassedBefore(u) ==
  IF /\ u = 1
     /\ messageRateLimit[u].resetTime = StartTime + RateWindow
  THEN RateLimitMax - 1
  ELSE 0

\* the sends of user u that passed in the window its counter stands for
PassedInWindow(u) ==
  {t \in Sends : /\ tasks[t].user = u
                 /\ Passed(t)
                 /\ tasks[t].at >= messageRateLimit[u].resetTime - RateWindow}

\* the send that arrives in this step, if one does
Arrives(t) == t = Len(tasks) + 1 /\ t = Len(tasks') /\ tasks'[t].kind = "send"

\* C29: the limiter has one counter per user, which all connections of the
\* user share and which only that user's sends change; every counter is
\* between 1 and 10 and equals the number of the user's sends that passed in
\* its window, from whichever connection and however the handlers
\* interleave; only the arrival of a send changes the limiter; and a send
\* that arrives at or after the deadline sets the counter to 1 and the
\* deadline to 60 seconds later.
C29_LimiterState ==
  /\ [](\A u \in DOMAIN messageRateLimit :
          /\ u \in Users
          /\ messageRateLimit[u].count >= 1
          /\ messageRateLimit[u].count <= RateLimitMax
          /\ messageRateLimit[u].count =
               Cardinality(PassedInWindow(u)) + PassedBefore(u))
  /\ [][/\ (Len(tasks') = Len(tasks)) => messageRateLimit' = messageRateLimit
        /\ \A t \in DOMAIN tasks' :
             Arrives(t) =>
               LET u == tasks'[t].user IN
               /\ \A v \in Users \ {u} :
                    /\ v \in DOMAIN messageRateLimit' <=> v \in DOMAIN messageRateLimit
                    /\ v \in DOMAIN messageRateLimit =>
                         messageRateLimit'[v] = messageRateLimit[v]
               /\ (HasLimit(u) /\ now >= messageRateLimit[u].resetTime) =>
                    messageRateLimit'[u] = [count |-> 1, resetTime |-> now + RateWindow]
               /\ (HasLimit(u) /\ now < messageRateLimit[u].resetTime) =>
                    /\ messageRateLimit'[u].resetTime = messageRateLimit[u].resetTime
                    /\ messageRateLimit'[u].count =
                         IF messageRateLimit[u].count >= RateLimitMax
                         THEN messageRateLimit[u].count
                         ELSE messageRateLimit[u].count + 1
                    /\ messageRateLimit[u].count >= RateLimitMax =>
                         tasks'[t].result = "rate_limited"]_vars

\* user 1's tenth send of the window came from one connection and passed,
\* the next one from the other connection was refused, and a send at the
\* deadline set the counter to 1 with a deadline 60 seconds later
C29_Witness ==
  \E t, u, v \in Sends :
    /\ tasks[t].sock = 1 /\ tasks[t].at = StartTime /\ Passed(t)
    /\ tasks[u].sock = 4 /\ tasks[u].at = StartTime /\ tasks[u].result = "rate_limited"
    /\ tasks[v].at = StartTime + RateWindow /\ tasks[v].result = "sent"
    /\ messageRateLimit[1] = [count |-> 1, resetTime |-> StartTime + 2 * RateWindow]

---------------------------------------------------------------------------
(* Properties of the presence map *)

\* the connections of user u that have connected and have not disconnected
OpenOf(u) == {s \in Sockets : SocketUser(s) = u /\ sockets[s].state = "open"}

\* connection s closes in this step
Closes(s) == sockets[s].state = "open" /\ sockets'[s].state = "closed"

\* C30: whatever connections have connected and disconnected, the map of
\* active connections holds no empty set, the set it holds for a user is the
\* set of the user's connections that connected with an id and have not
\* disconnected, isUserOnline(U) is true exactly when there is such a
\* connection, and when one of several connections of a user disconnects the
\* user stays online.
C30_Presence ==
  /\ [](/\ \A u \in DOMAIN userSockets : userSockets[u] # {}
        /\ \A u \in Users :
             /\ GetUserSockets(u) = OpenOf(u)
             /\ IsUserOnline(u) <=> OpenOf(u) # {})
  /\ [][\A s \in Sockets :
          (Closes(s) /\ OpenOf(SocketUser(s)) # {s}) =>
             /\ IsUserOnline(SocketUser(s))'
             /\ s \notin GetUserSockets(SocketUser(s))']_vars

\* both connections of user 1 connected, the first disconnected, the second
\* is still open and user 1 is online; user 2 connected and disconnected and
\* is offline, and the map holds no entry for user 2
C30_Witness ==
  /\ sockets[1].state = "closed"
  /\ sockets[4].state = "open"
  /\ userSockets[1] = {4}
  /\ IsUserOnline(1)
  /\ sockets[2].state = "closed"
  /\ events # <<>>
  /\ events[1].src = 2
  /\ 2 \notin DOMAIN userSockets
  /\ ~IsUserOnline(2)
====
